---- MODULE Spec2Model ----
(***************************************************************************)
(* Model of GeminiLiveAudioService (src/services/geminiService.ts): the    *)
(* utterance queue, the lazy session connect, the gapless chunk scheduler  *)
(* and the idle completion detector.  The service is single-threaded; one  *)
(* action of the model is one event-loop task (a public call, a resolved   *)
(* handshake with its continuation, an inbound message, an onended         *)
(* callback, a fired timer), run to completion.                            *)
(*                                                                         *)
(* Times are integer milliseconds.  The wall clock (Date.now) and the      *)
(* audio clock (AudioContext.currentTime) advance together and are both    *)
(* read from `now`.                                                        *)
(***************************************************************************)
EXTENDS Integers, Sequences, FiniteSets, TLC

\* ------------------------------------------------------------------ bounds
MaxInputs == 4         \* inputs in all: calls by the application, inbound
                       \* messages, sendClientContent calls that throw
T0 == 10000            \* clock reading when the service is constructed
MaxTicks == 3          \* clock advances
TickMs == 200          \* one clock advance, in ms
MaxChunks == 3         \* fragments handed to one scheduling pass

\* ------------------------------------------------------- program constants
idleFinishMs == 200    \* grace after the last chunk
PrimeMs == 80          \* startPlayingChunks: now + 0.08
SafetyMs == 5          \* scheduleNewChunks: currentTime + 0.005
FallbackMs == 10       \* scheduleNewChunks: currentTime + 0.01 when no cursor

Undef == -1            \* an `undefined` optional number / no pending timer
NoSession == 0
NoContext == 0

MaxNow == T0 + MaxTicks * TickMs

Max(a, b) == IF a >= b THEN a ELSE b

\* ------------------------------------------------------------------ inputs
\* Texts are character sequences; " " is the only whitespace character used.
Texts == { <<>>, <<" ">>, <<"a">> }

\* Durations (ms) of the decoded buffer of a fragment; 0 is a payload that
\* decodes to zero samples (pcm16bitToFloat32 returns an empty array).
Durations == {0, 300}

RECURSIVE TrimLeft(_)
TrimLeft(s) == IF s # <<>> /\ Head(s) = " " THEN TrimLeft(Tail(s)) ELSE s

RECURSIVE TrimRight(_)
TrimRight(s) ==
    IF s # <<>> /\ s[Len(s)] = " " THEN TrimRight(SubSeq(s, 1, Len(s) - 1)) ELSE s

Trim(s) == TrimRight(TrimLeft(s))

\* IsBlank without the trim: only the empty text is blank.
IsBlankNoTrim(text) == text = <<>>

\* speak(): !text || text.trim() === ''
IsBlank(text) == text = <<>> \/ Trim(text) = <<>>

\* ------------------------------------------------------------------- state
VARIABLES
    svc,    \* the fields of the GeminiLiveAudioService instance
    req,    \* the QueuedSpeechRequest objects, by speak() call number
    net,    \* the transport and the audio host: handshakes, sessions, contexts
    now,    \* the clock
    last,   \* the event-loop task that produced this state
    mime    \* the format descriptor handed to parseMimeType and its result

vars == <<svc, req, net, now, last, mime>>

Utterances == 1..MaxInputs

NoRequest ==
    [ status |-> "none", text |-> <<>>, audioChunks |-> <<>>,
      isPlaying |-> FALSE, scheduledChunkCount |-> 0, endedChunkCount |-> 0,
      isComplete |-> FALSE, nextStartAt |-> Undef, finishTimer |-> Undef,
      lastChunkTs |-> Undef, onStart |-> FALSE, hasStarted |-> FALSE,
      sources |-> <<>>, startCalls |-> 0, sentCount |-> 0, settledAt |-> Undef ]

\* The object literal built by speak().  status, sources, startCalls,
\* sentCount and settledAt record the promise's state, the AudioBufferSource
\* nodes started for the request, the onStart invocations and the sends.
NewRequest(text, cb) ==
    [ NoRequest EXCEPT !.status = "pending", !.text = text, !.onStart = cb ]

\* No descriptor was parsed.
NoMime == [text |-> <<>>, parsed |-> FALSE, numChannels |-> 0,
           bitsPerSample |-> 0, sampleRate |-> [kind |-> "undefined", val |-> 0],
           rate |-> 0]

Init ==
    /\ mime = NoMime
    /\ svc = [ session |-> NoSession, audioContext |-> NoContext,
               outputNode |-> NoContext, speechQueue |-> <<>>,
               isProcessingQueue |-> FALSE, isSessionWarmedUp |-> FALSE,
               chunkCounter |-> 0 ]
    /\ req = [u \in Utterances |-> NoRequest]
    /\ net = [ pendingPQ |-> 0, pendingPlain |-> 0, pendingWarm |-> 0,
               warmRejected |-> 0, connectCalls |-> 0,
               nSessions |-> 0, openSess |-> {}, closedSess |-> {}, nCtx |-> 0,
               closedCtx |-> {},
               sendLog |-> <<>>, resp |-> <<>>, sendFaults |-> 0,
               thrown |-> <<>>,
               nSpeak |-> 0, nDisconnect |-> 0, inputs |-> 0 ]
    /\ now = T0
    /\ last = [op |-> "init", u |-> 0, n |-> 0, k |-> 0, flag |-> FALSE]

World == [svc |-> svc, req |-> req, net |-> net]

\* ---------------------------------------------------------------- promises
\* resolve()/reject() of the promise built in speak(); settling twice is a no-op.
Settle(r, how) ==
    IF r.status = "pending" THEN [r EXCEPT !.status = how, !.settledAt = now] ELSE r

\* --------------------------------------------------------------- transport
\* this.session.sendClientContent({turns: [... request.text ...]}) that does
\* not throw: the backend starts a response stream for it.
SendClientContent(W, u) ==
    [W EXCEPT !.net.sendLog = Append(@, [u |-> u, text |-> W.req[u].text,
                                         sess |-> W.svc.session]),
              !.net.resp = Append(@, [n |-> 0, tc |-> FALSE]),
              !.req[u].sentCount = @ + 1]

\* connect() up to the await of ai.live.connect: the early return, the new
\* AudioContext and output chain, and the handshake left pending for `kind`
\* ("pq": awaited by processQueue, "plain": awaited by the caller of
\* connect(), "warm": awaited by warmUpSession).
ConnectStart(W, kind) ==
    IF W.svc.session # NoSession THEN W
    ELSE [W EXCEPT !.svc.audioContext = W.net.nCtx + 1,
                   !.svc.outputNode = W.net.nCtx + 1,
                   !.net.nCtx = @ + 1,
                   !.net.connectCalls = @ + 1,
                   !.net.pendingPQ = IF kind = "pq" THEN @ + 1 ELSE @,
                   !.net.pendingPlain = IF kind = "plain" THEN @ + 1 ELSE @,
                   !.net.pendingWarm = IF kind = "warm" THEN @ + 1 ELSE @]

\* connect() after the await resolved: this.session = <new session>; onopen
\* has set isSessionWarmedUp.
ConnectResolve(W) ==
    [W EXCEPT !.svc.session = W.net.nSessions + 1,
              !.svc.isSessionWarmedUp = TRUE,
              !.net.nSessions = @ + 1,
              !.net.openSess = @ \cup {W.net.nSessions + 1}]

\* --------------------------------------------------------------- the queue
RECURSIVE ProcessQueue(_)
RECURSIVE ProcessQueueSend(_)

\* ProcessQueueSend reading the request from the tail of the queue.
ProcessQueueSendLast(W) ==
    LET q == W.svc.speechQueue IN
    IF W.svc.session = NoSession \/ q = <<>> \/ W.net.sendFaults > 0 THEN W
    ELSE SendClientContent([W EXCEPT !.svc.isProcessingQueue = TRUE], q[Len(q)])

\* ProcessQueueSend whose catch block does not call processQueue() again.
ProcessQueueSendStop(W) ==
    LET q == W.svc.speechQueue IN
    IF W.svc.session = NoSession THEN
        IF q = <<>> THEN W
        ELSE [W EXCEPT !.svc.speechQueue = Tail(q),
                       !.req[Head(q)] = Settle(@, "rejected")]
    ELSE IF q = <<>> THEN [W EXCEPT !.svc.isProcessingQueue = FALSE]
    ELSE IF W.net.sendFaults > 0 THEN
        [W EXCEPT !.svc.speechQueue = Tail(q),
                  !.req[Head(q)] = Settle(@, "rejected"),
                  !.svc.isProcessingQueue = FALSE,
                  !.net.sendFaults = @ - 1,
                  !.net.thrown = Append(@, Head(q))]
    ELSE SendClientContent([W EXCEPT !.svc.isProcessingQueue = TRUE], Head(q))

\* processQueue() after its lazy connect: the second session test, the flag,
\* the send of speechQueue[0] and the catch block.
ProcessQueueSend(W) ==
    LET q == W.svc.speechQueue IN
    IF W.svc.session = NoSession THEN
        IF q = <<>> THEN W
        ELSE [W EXCEPT !.svc.speechQueue = Tail(q),
                       !.req[Head(q)] = Settle(@, "rejected")]
    ELSE IF q = <<>> THEN
        \* request is undefined: request.text throws inside the try; the
        \* catch shifts nothing, clears the flag and calls processQueue()
        ProcessQueue([W EXCEPT !.svc.isProcessingQueue = FALSE])
    ELSE IF W.net.sendFaults > 0 THEN
        \* sendClientContent throws (net.thrown records for which request)
        ProcessQueue([W EXCEPT !.svc.speechQueue = Tail(q),
                               !.req[Head(q)] = Settle(@, "rejected"),
                               !.svc.isProcessingQueue = FALSE,
                               !.net.sendFaults = @ - 1,
                               !.net.thrown = Append(@, Head(q))])
    ELSE SendClientContent([W EXCEPT !.svc.isProcessingQueue = TRUE], Head(q))

\* processQueue() from its entry to its first suspension or its return.
ProcessQueue(W) ==
    IF W.svc.isProcessingQueue \/ Len(W.svc.speechQueue) = 0 THEN W
    ELSE IF W.svc.session = NoSession THEN ConnectStart(W, "pq")
    ELSE ProcessQueueSend(W)

\* FinishCurrentSpeechRequest that leaves the in-flight flag set.
FinishCurrentSpeechRequestKeepFlag(W) ==
    LET q == W.svc.speechQueue
        W1 == IF q = <<>> THEN W
              ELSE [W EXCEPT !.svc.speechQueue = Tail(q),
                             !.req[Head(q)] = Settle(@, "resolved")]
    IN ProcessQueue(W1)

\* finishCurrentSpeechRequest(): resolve and remove the head, clear the
\* in-flight flag, send the next utterance.
FinishCurrentSpeechRequest(W) ==
    LET q == W.svc.speechQueue
        W1 == IF q = <<>> THEN W
              ELSE [W EXCEPT !.svc.speechQueue = Tail(q),
                             !.req[Head(q)] = Settle(@, "resolved")]
    IN ProcessQueue([W1 EXCEPT !.svc.isProcessingQueue = FALSE])

\* ----------------------------------------------------------- the scheduler
RECURSIVE ScheduleLoop(_, _)

\* ScheduleLoop that leaves the cursor at the start of the chunk it started.
ScheduleLoopNoAdvance(r, ctx) ==
    IF r.scheduledChunkCount >= Len(r.audioChunks) THEN r
    ELSE LET chunk == r.audioChunks[r.scheduledChunkCount + 1] IN
         IF chunk.dur = 0 THEN
             ScheduleLoop([r EXCEPT !.scheduledChunkCount = @ + 1], ctx)
         ELSE
             LET startAt == Max(IF r.nextStartAt = Undef THEN now + FallbackMs
                                ELSE r.nextStartAt,
                                now + SafetyMs)
             IN ScheduleLoop(
                  [r EXCEPT !.hasStarted = TRUE,
                            !.sources = Append(@, [start |-> startAt,
                                                   dur |-> chunk.dur,
                                                   at |-> now, ctx |-> ctx,
                                                   chunk |-> r.scheduledChunkCount + 1]),
                            !.nextStartAt = startAt,
                            !.scheduledChunkCount = @ + 1],
                  ctx)

\* ScheduleLoop that ends the pass at a fragment without samples.
ScheduleLoopStopAtEmpty(r, ctx) ==
    IF r.scheduledChunkCount >= Len(r.audioChunks) THEN r
    ELSE LET chunk == r.audioChunks[r.scheduledChunkCount + 1] IN
         IF chunk.dur = 0 THEN [r EXCEPT !.scheduledChunkCount = @ + 1]
         ELSE
             LET startAt == Max(IF r.nextStartAt = Undef THEN now + FallbackMs
                                ELSE r.nextStartAt,
                                now + SafetyMs)
                 fire == ~r.hasStarted /\ r.onStart
             IN ScheduleLoop(
                  [r EXCEPT !.hasStarted = TRUE,
                            !.startCalls = IF fire THEN @ + 1 ELSE @,
                            !.sources = Append(@, [start |-> startAt,
                                                   dur |-> chunk.dur,
                                                   at |-> now, ctx |-> ctx,
                                                   chunk |-> r.scheduledChunkCount + 1]),
                            !.nextStartAt = startAt + chunk.dur,
                            !.scheduledChunkCount = @ + 1],
                  ctx)

\* ScheduleLoop that starts every source at the cursor, however late.
ScheduleLoopNoMargin(r, ctx) ==
    IF r.scheduledChunkCount >= Len(r.audioChunks) THEN r
    ELSE LET chunk == r.audioChunks[r.scheduledChunkCount + 1] IN
         IF chunk.dur = 0 THEN
             ScheduleLoop([r EXCEPT !.scheduledChunkCount = @ + 1], ctx)
         ELSE
             LET startAt == IF r.nextStartAt = Undef THEN now + FallbackMs
                            ELSE r.nextStartAt
                 fire == ~r.hasStarted /\ r.onStart
             IN ScheduleLoop(
                  [r EXCEPT !.hasStarted = TRUE,
                            !.startCalls = IF fire THEN @ + 1 ELSE @,
                            !.sources = Append(@, [start |-> startAt,
                                                   dur |-> chunk.dur,
                                                   at |-> now, ctx |-> ctx,
                                                   chunk |-> r.scheduledChunkCount + 1]),
                            !.nextStartAt = startAt + chunk.dur,
                            !.scheduledChunkCount = @ + 1],
                  ctx)

\* ScheduleLoop without the one-shot guard of onStart.
ScheduleLoopAlwaysStart(r, ctx) ==
    IF r.scheduledChunkCount >= Len(r.audioChunks) THEN r
    ELSE LET chunk == r.audioChunks[r.scheduledChunkCount + 1] IN
         IF chunk.dur = 0 THEN
             ScheduleLoop([r EXCEPT !.scheduledChunkCount = @ + 1], ctx)
         ELSE
             LET startAt == Max(IF r.nextStartAt = Undef THEN now + FallbackMs
                                ELSE r.nextStartAt,
                                now + SafetyMs)
                 fire == r.onStart
             IN ScheduleLoop(
                  [r EXCEPT !.hasStarted = TRUE,
                            !.startCalls = IF fire THEN @ + 1 ELSE @,
                            !.sources = Append(@, [start |-> startAt,
                                                   dur |-> chunk.dur,
                                                   at |-> now, ctx |-> ctx,
                                                   chunk |-> r.scheduledChunkCount + 1]),
                            !.nextStartAt = startAt + chunk.dur,
                            !.scheduledChunkCount = @ + 1],
                  ctx)

\* One pass of the while loop of scheduleNewChunks over request r, with
\* AudioContext ctx.
ScheduleLoop(r, ctx) ==
    IF r.scheduledChunkCount >= Len(r.audioChunks) THEN r
    ELSE LET chunk == r.audioChunks[r.scheduledChunkCount + 1] IN
         IF chunk.dur = 0 THEN
             ScheduleLoop([r EXCEPT !.scheduledChunkCount = @ + 1], ctx)
         ELSE
             LET startAt == Max(IF r.nextStartAt = Undef THEN now + FallbackMs
                                ELSE r.nextStartAt,
                                now + SafetyMs)
                 fire == ~r.hasStarted /\ r.onStart
             IN ScheduleLoop(
                  [r EXCEPT !.hasStarted = TRUE,
                            !.startCalls = IF fire THEN @ + 1 ELSE @,
                            !.sources = Append(@, [start |-> startAt,
                                                   dur |-> chunk.dur,
                                                   at |-> now, ctx |-> ctx,
                                                   chunk |-> r.scheduledChunkCount + 1]),
                            !.nextStartAt = startAt + chunk.dur,
                            !.scheduledChunkCount = @ + 1],
                  ctx)

\* ScheduleNewChunks that starts each pass at the first fragment.
ScheduleNewChunksRestart(W, u) ==
    IF W.svc.audioContext = NoContext THEN FinishCurrentSpeechRequest(W)
    ELSE [W EXCEPT !.req[u] = ScheduleLoop([@ EXCEPT !.scheduledChunkCount = 0],
                                           W.svc.audioContext)]

\* scheduleNewChunks(request)
ScheduleNewChunks(W, u) ==
    IF W.svc.audioContext = NoContext THEN FinishCurrentSpeechRequest(W)
    ELSE [W EXCEPT !.req[u] = ScheduleLoop(@, W.svc.audioContext)]

\* StartPlayingChunks that does not prime the cursor.
StartPlayingChunksNoPrime(W, u) ==
    LET W1 == [W EXCEPT !.req[u].isPlaying = TRUE,
                        !.req[u].scheduledChunkCount = 0,
                        !.req[u].endedChunkCount = 0,
                        !.req[u].hasStarted = FALSE]
    IN ScheduleNewChunks(W1, u)

\* startPlayingChunks(request): reset the counters, prime the cursor 80 ms
\* ahead of the audio clock, schedule what has arrived.
StartPlayingChunks(W, u) ==
    LET W1 == [W EXCEPT !.req[u].isPlaying = TRUE,
                        !.req[u].scheduledChunkCount = 0,
                        !.req[u].endedChunkCount = 0,
                        !.req[u].hasStarted = FALSE,
                        !.req[u].nextStartAt =
                            IF W.svc.audioContext # NoContext
                            THEN now + PrimeMs ELSE @]
    IN ScheduleNewChunks(W1, u)

\* ------------------------------------------------- the completion detector
\* ensureFinishAfterIdle(request): clear the pending timer, arm a new one.
EnsureFinishAfterIdle(W, u) ==
    [W EXCEPT !.req[u].finishTimer = now + idleFinishMs]

\* The decision of the timer callback, on the request as scheduleNewChunks
\* left it.
FinishCheck(r) ==
    LET lastTs == IF r.lastChunkTs = Undef THEN 0 ELSE r.lastChunkTs
        idleLongEnough == now - lastTs >= idleFinishMs
        allScheduled == r.scheduledChunkCount >= Len(r.audioChunks)
        allEnded == r.endedChunkCount >= r.scheduledChunkCount
                    /\ r.scheduledChunkCount > 0
        haveEnoughChunks == Len(r.audioChunks) > 0
    IN r.isComplete /\ idleLongEnough /\ allScheduled /\ allEnded
       /\ haveEnoughChunks

\* The body of the setTimeout callback of ensureFinishAfterIdle.
IdleCheck(W, u) ==
    LET W1 == ScheduleNewChunks([W EXCEPT !.req[u].finishTimer = Undef], u)
    IN IF ~FinishCheck(W1.req[u]) THEN EnsureFinishAfterIdle(W1, u)
       ELSE FinishCurrentSpeechRequest(W1)

\* SourceEnded that counts the source twice.
SourceEndedTwice(W, u) ==
    LET W1 == [W EXCEPT !.req[u].endedChunkCount = @ + 2]
    IN IF W1.req[u].isComplete THEN EnsureFinishAfterIdle(W1, u) ELSE W1

\* source.onended of the next source of request u to reach its end.
SourceEnded(W, u) ==
    LET W1 == [W EXCEPT !.req[u].endedChunkCount = @ + 1]
    IN IF W1.req[u].isComplete THEN EnsureFinishAfterIdle(W1, u) ELSE W1

\* ---------------------------------------------------------- inbound stream
\* ProcessMessage that takes every message for the end of the turn.
ProcessMessageAlwaysComplete(W, parts, tc, i) ==
    IF W.svc.speechQueue = <<>> THEN W
    ELSE
      LET u == Head(W.svc.speechQueue)
          W1 == IF parts # <<>> THEN
                    LET Wa == [W EXCEPT
                                 !.req[u].audioChunks =
                                     Append(@, [dur |-> parts[1],
                                                chunkIndex |-> W.svc.chunkCounter,
                                                origin |-> i,
                                                late |-> W.req[u].isComplete]),
                                 !.svc.chunkCounter = @ + 1,
                                 !.req[u].lastChunkTs = now]
                        Wb == IF ~Wa.req[u].isPlaying
                              THEN StartPlayingChunks(Wa, u) ELSE Wa
                        Wc == ScheduleNewChunks(Wb, u)
                    IN [Wc EXCEPT !.req[u].finishTimer = Undef]
                ELSE W
      IN EnsureFinishAfterIdle([W1 EXCEPT !.req[u].isComplete = TRUE], u)

\* ProcessMessage that leaves a pending idle-check timer alone.
ProcessMessageKeepTimer(W, parts, tc, i) ==
    IF W.svc.speechQueue = <<>> THEN W
    ELSE
      LET u == Head(W.svc.speechQueue)
          W1 == IF parts # <<>> THEN
                    LET Wa == [W EXCEPT
                                 !.req[u].audioChunks =
                                     Append(@, [dur |-> parts[1],
                                                chunkIndex |-> W.svc.chunkCounter,
                                                origin |-> i,
                                                late |-> W.req[u].isComplete]),
                                 !.svc.chunkCounter = @ + 1,
                                 !.req[u].lastChunkTs = now]
                        Wb == IF ~Wa.req[u].isPlaying
                              THEN StartPlayingChunks(Wa, u) ELSE Wa
                    IN ScheduleNewChunks(Wb, u)
                ELSE W
      IN IF tc THEN EnsureFinishAfterIdle([W1 EXCEPT !.req[u].isComplete = TRUE], u)
         ELSE W1

\* processMessage(message); parts are the fragments of
\* serverContent.modelTurn.parts, i the send that the backend answers.  A
\* fragment records the send it answers (origin) and whether it arrived
\* after turnComplete (late).
ProcessMessage(W, parts, tc, i) ==
    IF W.svc.speechQueue = <<>> THEN W
    ELSE
      LET u == Head(W.svc.speechQueue)
          W1 == IF parts # <<>> THEN
                    LET Wa == [W EXCEPT
                                 !.req[u].audioChunks =
                                     Append(@, [dur |-> parts[1],
                                                chunkIndex |-> W.svc.chunkCounter,
                                                origin |-> i,
                                                late |-> W.req[u].isComplete]),
                                 !.svc.chunkCounter = @ + 1,
                                 !.req[u].lastChunkTs = now]
                        Wb == IF ~Wa.req[u].isPlaying
                              THEN StartPlayingChunks(Wa, u) ELSE Wa
                        Wc == ScheduleNewChunks(Wb, u)
                    IN [Wc EXCEPT !.req[u].finishTimer = Undef]
                ELSE W
      IN IF tc THEN EnsureFinishAfterIdle([W1 EXCEPT !.req[u].isComplete = TRUE], u)
         ELSE W1

\* -------------------------------------------------------------- disconnect
RECURSIVE RejectAll(_, _)
RejectAll(rs, q) ==
    IF q = <<>> THEN rs
    ELSE RejectAll([rs EXCEPT ![Head(q)] = Settle(@, "rejected")], Tail(q))

\* DisconnectBody that rejects the queued requests and keeps them queued.
DisconnectBodyKeepQueue(W) ==
    [W EXCEPT !.net.openSess = @ \ {W.svc.session},
              !.net.closedCtx = @ \cup ({W.svc.audioContext} \ {NoContext}),
              !.svc.session = NoSession,
              !.svc.audioContext = NoContext,
              !.svc.outputNode = NoContext,
              !.svc.isSessionWarmedUp = FALSE,
              !.req = RejectAll(@, W.svc.speechQueue),
              !.svc.isProcessingQueue = FALSE,
              !.svc.chunkCounter = 0]

\* DisconnectBody that forgets to clear the in-flight flag.
DisconnectBodyKeepFlag(W) ==
    [W EXCEPT !.net.openSess = @ \ {W.svc.session},
              !.net.closedCtx = @ \cup ({W.svc.audioContext} \ {NoContext}),
              !.svc.session = NoSession,
              !.svc.audioContext = NoContext,
              !.svc.outputNode = NoContext,
              !.svc.isSessionWarmedUp = FALSE,
              !.req = RejectAll(@, W.svc.speechQueue),
              !.svc.speechQueue = <<>>,
              !.svc.chunkCounter = 0]

DisconnectBody(W) ==
    [W EXCEPT !.net.openSess = @ \ {W.svc.session},
              !.net.closedCtx = @ \cup ({W.svc.audioContext} \ {NoContext}),
              !.svc.session = NoSession,
              !.svc.audioContext = NoContext,
              !.svc.outputNode = NoContext,
              !.svc.isSessionWarmedUp = FALSE,
              !.req = RejectAll(@, W.svc.speechQueue),
              !.svc.speechQueue = <<>>,
              !.svc.isProcessingQueue = FALSE,
              !.svc.chunkCounter = 0]

\* ------------------------------------------------------------------- speak
\* SpeakBody that puts the request at the front of the queue.
SpeakBodyFront(W, text, cb) ==
    LET u == W.net.nSpeak + 1
    IN ProcessQueue([W EXCEPT !.req[u] = NewRequest(text, cb),
                              !.svc.speechQueue = <<u>> \o @,
                              !.net.nSpeak = u])

\* speak(text, opts) with a non-blank text: the request is pushed and
\* processQueue() called.
SpeakBody(W, text, cb) ==
    LET u == W.net.nSpeak + 1
    IN ProcessQueue([W EXCEPT !.req[u] = NewRequest(text, cb),
                              !.svc.speechQueue = Append(@, u),
                              !.net.nSpeak = u])

\* ----------------------------------------------------------------- actions
Task(op, u, n, k, flag) == [op |-> op, u |-> u, n |-> n, k |-> k, flag |-> flag]

HeadOf(q) == IF q = <<>> THEN 0 ELSE Head(q)

\* The service as a task finds it.  f is the number of sendClientContent
\* calls of the task that throw (its first f sends), c (0 or 1) counts the
\* call by the application or the inbound message that the task is.
Enter(f, c) ==
    [World EXCEPT !.net.sendFaults = f, !.net.inputs = @ + f + c]

\* The task's effect W2 on the service, within the bound on inputs; a task
\* is given a throwing send only if it sends.
Commit(W2, task) ==
    /\ W2.net.inputs <= MaxInputs
    /\ W2.net.sendFaults = 0
    /\ svc' = W2.svc
    /\ req' = W2.req
    /\ net' = W2.net
    /\ last' = task
    /\ UNCHANGED <<now, mime>>

\* Number of characters of a text that are not whitespace.
RECURSIVE NonSpace(_)
NonSpace(s) ==
    IF s = <<>> THEN 0
    ELSE (IF Head(s) = " " THEN 0 ELSE 1) + NonSpace(Tail(s))

\* speak(text, {onAudioStart}); a blank text resolves at once.  The task
\* records the request it created (0: none), the length of the text and the
\* number of its non-whitespace characters.
Speak(text, cb, f) ==
    IF IsBlank(text)
    THEN /\ f = 0
         /\ Commit(Enter(0, 1),
                   Task("speak", 0, Len(text), NonSpace(text), TRUE))
    ELSE /\ net.inputs < MaxInputs
         /\ net.nSpeak < MaxInputs
         /\ Commit(SpeakBody(Enter(f, 1), text, cb),
                   Task("speak", net.nSpeak + 1, Len(text), NonSpace(text), cb))

\* connect() called by the application.
Connect ==
    /\ net.inputs < MaxInputs
    /\ Commit(ConnectStart(Enter(0, 1), "plain"),
              Task("connect", 0, 0, 0, svc.session # NoSession))

\* warmUpSession() up to its await of connect()
WarmUpBody(W) ==
    IF ~W.svc.isSessionWarmedUp /\ W.svc.session = NoSession
    THEN ConnectStart(W, "warm") ELSE W

WarmUpSession ==
    /\ net.inputs < MaxInputs
    /\ Commit(WarmUpBody(Enter(0, 1)),
              Task("warmUp", 0, 0, 0, svc.session # NoSession))

\* preWarmForQuestion() up to its await of warmUpSession()
PreWarmBody(W) == IF ~W.svc.isSessionWarmedUp THEN WarmUpBody(W) ELSE W

PreWarmForQuestion ==
    /\ net.inputs < MaxInputs
    /\ Commit(PreWarmBody(Enter(0, 1)),
              Task("preWarm", 0, 0, 0, svc.session # NoSession))

\* The connect() calls of `kind` whose handshake is pending.
Pending(kind) ==
    IF kind = "pq" THEN net.pendingPQ
    ELSE IF kind = "plain" THEN net.pendingPlain ELSE net.pendingWarm

\* ai.live.connect resolves for one pending connect(); a processQueue()
\* awaiting it resumes in the same task.
HandshakeOk(kind, f) ==
    /\ Pending(kind) > 0
    /\ LET W0 == [Enter(f, 0) EXCEPT
                    !.net.pendingPQ = IF kind = "pq" THEN @ - 1 ELSE @,
                    !.net.pendingPlain = IF kind = "plain" THEN @ - 1 ELSE @,
                    !.net.pendingWarm = IF kind = "warm" THEN @ - 1 ELSE @]
           W1 == ConnectResolve(W0)
       IN Commit(IF kind = "pq" THEN ProcessQueueSend(W1) ELSE W1,
                 Task("handshakeOk", HeadOf(svc.speechQueue), net.nSessions + 1,
                      f, kind = "pq"))

\* HandshakeFail that calls connect() again for the same awaiter.
HandshakeFailRetry(kind) ==
    /\ Pending(kind) > 0
    /\ Commit(ConnectStart(
                 [Enter(0, 0) EXCEPT
                    !.net.pendingPQ = IF kind = "pq" THEN @ - 1 ELSE @,
                    !.net.pendingPlain = IF kind = "plain" THEN @ - 1 ELSE @,
                    !.net.pendingWarm = IF kind = "warm" THEN @ - 1 ELSE @,
                    !.net.warmRejected = IF kind = "warm" THEN @ + 1 ELSE @],
                 kind),
              Task("handshakeFail", HeadOf(svc.speechQueue), 0, 0, kind = "pq"))

\* ai.live.connect rejects: connect() rethrows, and so does the awaiting
\* processQueue() (nobody handles its rejection) or the awaiting
\* warmUpSession() and the preWarmForQuestion() that awaits it: the promise
\* they returned to the application rejects (counted in warmRejected).
HandshakeFail(kind) ==
    /\ Pending(kind) > 0
    /\ Commit([Enter(0, 0) EXCEPT
                 !.net.pendingPQ = IF kind = "pq" THEN @ - 1 ELSE @,
                 !.net.pendingPlain = IF kind = "plain" THEN @ - 1 ELSE @,
                 !.net.pendingWarm = IF kind = "warm" THEN @ - 1 ELSE @,
                 !.net.warmRejected = IF kind = "warm" THEN @ + 1 ELSE @],
              Task("handshakeFail", HeadOf(svc.speechQueue), 0, 0, kind = "pq"))

\* disconnect()
Disconnect ==
    /\ net.inputs < MaxInputs
    /\ Commit(DisconnectBody([Enter(0, 1) EXCEPT !.net.nDisconnect = @ + 1]),
              Task("disconnect", HeadOf(svc.speechQueue), Len(svc.speechQueue),
                   0, svc.isProcessingQueue))

\* onmessage: a message with the audio parts `parts` and the turnComplete
\* flag tc.  With parts or tc it is the backend's answer to send i (at most
\* one turnComplete per send); with neither, i is 0 and any open session may
\* have sent it.
Deliver(i, parts, tc, f) ==
    /\ net.inputs < MaxInputs
    /\ IF parts = <<>> /\ ~tc
       THEN i = 0 /\ net.openSess # {}
       ELSE /\ i \in 1..Len(net.sendLog)
            /\ net.sendLog[i].sess \in net.openSess
            /\ tc => ~net.resp[i].tc
    /\ LET W0 == Enter(f, 1)
           W1 == IF i = 0 THEN W0
                 ELSE [W0 EXCEPT !.net.resp[i].n = @ + Len(parts),
                                 !.net.resp[i].tc = @ \/ tc]
       IN Commit(ProcessMessage(W1, parts, tc, i),
                 Task("message", HeadOf(svc.speechQueue), i, Len(parts), tc))

\* The onclose callback handed to ai.live.connect, for session s: the
\* transport closed it, or close() was called on it by disconnect().  The
\* callback runs once per session and only clears isSessionWarmedUp;
\* this.session is left as it is.  A closed session delivers nothing more.
OnClose(s) ==
    /\ net.inputs < MaxInputs
    /\ s \in 1..net.nSessions
    /\ s \notin net.closedSess
    /\ Commit([Enter(0, 1) EXCEPT !.svc.isSessionWarmedUp = FALSE,
                                  !.net.openSess = @ \ {s},
                                  !.net.closedSess = @ \cup {s}],
              Task("close", HeadOf(svc.speechQueue), s, 0,
                   svc.isSessionWarmedUp))

\* Sessions the transport may have opened.
SessionIds == 1..(2 * MaxInputs)

\* The next source of request u that has not ended yet.
NextSource(r) == r.sources[r.endedChunkCount + 1]

\* onended of a source of request u: its end time has passed on the audio
\* clock of a context that was not closed.
OnEnded(u) ==
    /\ req[u].endedChunkCount < Len(req[u].sources)
    /\ now >= NextSource(req[u]).start + NextSource(req[u]).dur
    /\ NextSource(req[u]).ctx \notin net.closedCtx
    /\ Commit(SourceEnded(Enter(0, 0), u),
              Task("ended", u, req[u].endedChunkCount + 1, 0, req[u].isComplete))

\* The idle-check timer of request u fires.
TimerFire(u, f) ==
    /\ req[u].finishTimer # Undef
    /\ now >= req[u].finishTimer
    /\ Commit(IdleCheck(Enter(f, 0), u),
              Task("timer", u, HeadOf(svc.speechQueue), f, FALSE))

Tick ==
    /\ now < MaxNow
    /\ now' = now + TickMs
    /\ last' = Task("tick", 0, 0, 0, FALSE)
    /\ UNCHANGED <<svc, req, net, mime>>

\* Messages the backend sends: no audio part, one, or two in one message.
PartLists == { <<>> } \cup { <<d>> : d \in Durations } \cup { <<300, 500>> }

\* How many sendClientContent calls of one task throw: the catch block of
\* processQueue() calls processQueue() again, so a task sends until a send
\* succeeds or the queue is empty, and every send before that may throw.
Faults == 0..MaxInputs

\* Positions in the log of sends (0: no send).
SendIds == 0..(2 * MaxInputs)

\* Every task of the running service: speak() and disconnect() calls,
\* handshakes that succeed or fail, sends that throw, the backend's answers,
\* sessions that close, the host's callbacks.
Next ==
    \/ \E f \in Faults : Speak(<<"a">>, TRUE, f)
    \/ \E f \in Faults : HandshakeOk("pq", f)
    \/ HandshakeFail("pq")
    \/ Disconnect
    \/ \E i \in SendIds, p \in PartLists, tc \in BOOLEAN, f \in Faults :
          Deliver(i, p, tc, f)
    \/ \E u \in Utterances : OnEnded(u)
    \/ \E u \in Utterances, f \in Faults : TimerFire(u, f)
    \/ \E s \in SessionIds : OnClose(s)
    \/ Tick

Spec == Init /\ [][Next]_vars

\* The service without disconnect() and without failures (no session
\* closes): speak() calls, handshakes that succeed, the backend's answers,
\* the host's callbacks.
NextSteady ==
    \/ Speak(<<"a">>, TRUE, 0)
    \/ HandshakeOk("pq", 0)
    \/ \E i \in SendIds, p \in PartLists, tc \in BOOLEAN :
          Deliver(i, p, tc, 0)
    \/ \E u \in Utterances : OnEnded(u)
    \/ \E u \in Utterances : TimerFire(u, 0)
    \/ Tick

SpecSteady == Init /\ [][NextSteady]_vars

\* The public interface: every method the application can call, with any
\* text, and the handshakes, answers, session closes and callbacks that
\* follow.
NextApi ==
    \/ \E t \in Texts : Speak(t, TRUE, 0)
    \/ Connect
    \/ WarmUpSession
    \/ PreWarmForQuestion
    \/ \E kind \in {"pq", "plain", "warm"} : HandshakeOk(kind, 0)
    \/ \E kind \in {"pq", "plain", "warm"} : HandshakeFail(kind)
    \/ Disconnect
    \/ \E i \in SendIds, p \in PartLists, tc \in BOOLEAN :
          Deliver(i, p, tc, 0)
    \/ \E u \in Utterances : OnEnded(u)
    \/ \E u \in Utterances : TimerFire(u, 0)
    \/ \E s \in SessionIds : OnClose(s)
    \/ Tick

SpecApi == Init /\ [][NextApi]_vars

\* The service as constructed (the state of Init), as a world.
Fresh ==
    [svc |-> [ session |-> NoSession, audioContext |-> NoContext,
               outputNode |-> NoContext, speechQueue |-> <<>>,
               isProcessingQueue |-> FALSE, isSessionWarmedUp |-> FALSE,
               chunkCounter |-> 0 ],
     req |-> [u \in Utterances |-> NoRequest],
     net |-> [ pendingPQ |-> 0, pendingPlain |-> 0, pendingWarm |-> 0,
               warmRejected |-> 0, connectCalls |-> 0, nSessions |-> 0,
               openSess |-> {}, closedSess |-> {}, nCtx |-> 0,
               closedCtx |-> {},
               sendLog |-> <<>>, resp |-> <<>>, sendFaults |-> 0,
               thrown |-> <<>>, nSpeak |-> 0, nDisconnect |-> 0,
               inputs |-> 0 ]]

\* The service after speak('a'); speak('a') made back to back on a fresh
\* service: two requests queued, two handshakes pending.  Inputs are counted
\* from this state on.
InitQueued ==
    /\ now = T0
    /\ mime = NoMime
    /\ LET W2 == SpeakBody(SpeakBody(Fresh, <<"a">>, TRUE), <<"a">>, TRUE)
       IN /\ svc = W2.svc
          /\ req = W2.req
          /\ net = W2.net
    /\ last = Task("speak", 2, 1, 1, TRUE)

\* What follows the two calls: the handshakes resolve, the send of a
\* handshake's continuation may throw, the backend answers with playable
\* fragments, the host's callbacks run; no session closes.
NextQueued ==
    \/ \E f \in Faults : HandshakeOk("pq", f)
    \/ \E i \in SendIds, tc \in BOOLEAN : Deliver(i, <<300>>, tc, 0)
    \/ \E u \in Utterances : OnEnded(u)
    \/ \E u \in Utterances : TimerFire(u, 0)
    \/ Tick

SpecQueued == InitQueued /\ [][NextQueued]_vars

\* The same two calls followed by anything the application and the
\* transport may do next, short of sends that throw: further speak() and
\* disconnect() calls, handshakes that succeed or fail, answers with
\* playable fragments, sessions that close, the host's callbacks.
NextRestart ==
    \/ Speak(<<"a">>, TRUE, 0)
    \/ HandshakeOk("pq", 0)
    \/ HandshakeFail("pq")
    \/ Disconnect
    \/ \E i \in SendIds, tc \in BOOLEAN : Deliver(i, <<300>>, tc, 0)
    \/ \E u \in Utterances : OnEnded(u)
    \/ \E u \in Utterances : TimerFire(u, 0)
    \/ \E s \in SessionIds : OnClose(s)
    \/ Tick

SpecRestart == InitQueued /\ [][NextRestart]_vars

\* ------------------------------------------------ one scheduling pass alone
\* Durations of the fragments handed to a pass, and the lists of fragments.
ChunkDurations == Durations \cup {500}

ChunkLists ==
    UNION { { [k \in 1..n |-> [dur |-> d[k], chunkIndex |-> k - 1,
                               origin |-> 1, late |-> FALSE]] :
                d \in [1..n -> ChunkDurations] } : n \in 0..MaxChunks }

\* The cursor a pass may find: none, or the one primed by startPlayingChunks.
Cursors == {Undef, T0 + PrimeMs}

\* scheduleNewChunks as a function of its input: the service with a session
\* and an AudioContext, 'a' sent and in flight, and the head request holding
\* any list of fragments, none scheduled yet, with any cursor.
InitSchedule ==
    /\ now = T0
    /\ mime = NoMime
    /\ \E chunks \in ChunkLists, cur \in Cursors :
          LET W1 == SpeakBody(Fresh, <<"a">>, TRUE)
              W2 == ProcessQueueSend(
                        ConnectResolve([W1 EXCEPT !.net.pendingPQ = 0]))
          IN /\ svc = [W2.svc EXCEPT !.chunkCounter = Len(chunks)]
             /\ req = [W2.req EXCEPT ![1].audioChunks = chunks,
                                     ![1].isPlaying = TRUE,
                                     ![1].nextStartAt = cur,
                                     ![1].lastChunkTs = T0]
             /\ net = [W2.net EXCEPT !.resp[1].n = Len(chunks)]
    /\ last = Task("message", 1, 1, 0, FALSE)

\* One call of scheduleNewChunks(request) on the head request, with
\* fragments to schedule.  The task records how many there were.
SchedulePass(u) ==
    /\ HeadOf(svc.speechQueue) = u
    /\ req[u].scheduledChunkCount < Len(req[u].audioChunks)
    /\ Commit(ScheduleNewChunks(Enter(0, 0), u),
              Task("schedule", u,
                   Len(req[u].audioChunks) - req[u].scheduledChunkCount,
                   0, FALSE))

NextSchedule ==
    \/ \E u \in Utterances : SchedulePass(u)
    \/ Tick

SpecSchedule == InitSchedule /\ [][NextSchedule]_vars

\* ------------------------------------------------- one answer stream alone
\* The service after speak('a') on a fresh service and the handshake that
\* follows: a session and an AudioContext exist, 'a' is sent and in flight,
\* nothing has arrived yet.  Inputs are counted from this state on.
InitStream ==
    /\ now = T0
    /\ mime = NoMime
    /\ LET W1 == SpeakBody(Fresh, <<"a">>, TRUE)
           W2 == ProcessQueueSend(
                     ConnectResolve([W1 EXCEPT !.net.pendingPQ = 0]))
       IN /\ svc = W2.svc
          /\ req = W2.req
          /\ net = W2.net
    /\ last = Task("handshakeOk", 1, 1, 0, TRUE)

\* The backend streams its answer, one fragment of any duration per
\* message; the host's callbacks run.
NextStream ==
    \/ \E i \in SendIds, d \in ChunkDurations, tc \in BOOLEAN :
          Deliver(i, <<d>>, tc, 0)
    \/ \E u \in Utterances : OnEnded(u)
    \/ \E u \in Utterances : TimerFire(u, 0)
    \/ Tick

SpecStream == InitStream /\ [][NextStream]_vars

\* ------------------------------------------------------ format descriptors
\* Texts are sequences of characters.  A JavaScript number that may be
\* absent or NaN is a record.
Number(n) == [kind |-> "number", val |-> n]
NaN == [kind |-> "NaN", val |-> 0]
Undefined == [kind |-> "undefined", val |-> 0]

Digits == <<"0", "1", "2", "3", "4", "5", "6", "7", "8", "9">>

IsDigit(c) == \E k \in 1..10 : Digits[k] = c

DigitVal(c) == (CHOOSE k \in 1..10 : Digits[k] = c) - 1

\* String.prototype.split(sep) with a one-character separator.
RECURSIVE Split(_, _)
Split(s, sep) ==
    IF \A k \in 1..Len(s) : s[k] # sep THEN <<s>>
    ELSE LET k == CHOOSE i \in 1..Len(s) :
                     s[i] = sep /\ \A j \in 1..(i - 1) : s[j] # sep
         IN <<SubSeq(s, 1, k - 1)>> \o Split(SubSeq(s, k + 1, Len(s)), sep)

\* list.map(s => s.trim())
TrimAll(list) == [k \in 1..Len(list) |-> Trim(list[k])]

\* The longest prefix of s made of decimal digits.
RECURSIVE LeadingDigits(_)
LeadingDigits(s) ==
    IF s = <<>> \/ ~IsDigit(Head(s)) THEN <<>>
    ELSE <<Head(s)>> \o LeadingDigits(Tail(s))

\* The value of a sequence of decimal digits.
RECURSIVE Decimal(_)
Decimal(ds) ==
    IF ds = <<>> THEN 0
    ELSE Decimal(SubSeq(ds, 1, Len(ds) - 1)) * 10 + DigitVal(ds[Len(ds)])

\* parseInt(str, 10): leading whitespace is skipped, a sign is read, then
\* the longest run of digits; NaN without a digit.
ParseInt(str) ==
    LET s == TrimLeft(str)
        signed == s # <<>> /\ Head(s) \in {"+", "-"}
        body == IF signed THEN Tail(s) ELSE s
        ds == LeadingDigits(body)
    IN IF ds = <<>> THEN NaN
       ELSE Number((IF signed /\ Head(s) = "-" THEN -1 ELSE 1) * Decimal(ds))

\* ToString(undefined), which parseInt reads when a parameter has no value.
UndefinedText == <<"u", "n", "d", "e", "f", "i", "n", "e", "d">>

RateKey == <<"r", "a", "t", "e">>

\* The for loop of parseMimeType over the parameters: the last rate wins.
RECURSIVE ApplyParams(_, _)
ApplyParams(options, params) ==
    IF params = <<>> THEN options
    ELSE LET kv == TrimAll(Split(Head(params), "="))
             key == kv[1]
             value == IF Len(kv) >= 2 THEN kv[2] ELSE UndefinedText
         IN ApplyParams(IF key = RateKey
                        THEN [options EXCEPT !.sampleRate = ParseInt(value)]
                        ELSE options,
                        Tail(params))

\* ParseMimeType that ignores the encoding.
ParseMimeTypeNoBits(mimeType) ==
    LET pieces == TrimAll(Split(mimeType, ";"))
    IN ApplyParams([numChannels |-> 1, bitsPerSample |-> 16,
                    sampleRate |-> Undefined],
                   Tail(pieces))

\* parseMimeType(mimeType); a missing format is undefined, which is falsy
\* like the empty text.
ParseMimeType(mimeType) ==
    LET pieces == TrimAll(Split(mimeType, ";"))
        fileType == Head(pieces)
        params == Tail(pieces)
        ft == Split(fileType, "/")
        format == IF Len(ft) >= 2 THEN ft[2] ELSE <<>>
        bits == IF format # <<>> /\ Head(format) = "L"
                THEN ParseInt(Tail(format)) ELSE NaN
    IN ApplyParams([numChannels |-> 1,
                    bitsPerSample |-> IF bits.kind = "number" THEN bits.val
                                      ELSE 16,
                    sampleRate |-> Undefined],
                   params)

\* 'audio/pcm;rate=24000'
DefaultMime ==
    <<"a", "u", "d", "i", "o", "/", "p", "c", "m", ";",
      "r", "a", "t", "e", "=", "2", "4", "0", "0", "0">>

\* The sample rate scheduleNewChunks gives to createBuffer for a fragment
\* with this descriptor: parsed.sampleRate || 24000.
ChunkSampleRate(mimeType) ==
    LET parsed == ParseMimeType(IF mimeType = <<>> THEN DefaultMime
                                ELSE mimeType)
    IN IF parsed.sampleRate.kind = "number" /\ parsed.sampleRate.val # 0
       THEN parsed.sampleRate.val ELSE 24000

\* The descriptors handed to the parser are written from their parts: a
\* category, an encoding (bits is 0 unless the encoding is L<bits>), an
\* optional other parameter, a rate parameter, optional blanks around the
\* pieces.
RECURSIVE ToDigits(_)
ToDigits(n) ==
    IF n < 10 THEN <<Digits[n + 1]>>
    ELSE ToDigits(n \div 10) \o <<Digits[(n % 10) + 1]>>

Categories == { <<"a", "u", "d", "i", "o">>, <<"x">> }

BitDepths == {8, 16, 24}

Encodings ==
    { [text |-> <<"p", "c", "m">>, bits |-> 0],
      [text |-> <<"L", "x">>, bits |-> 0] }
    \cup { [text |-> <<"L">> \o ToDigits(b), bits |-> b] : b \in BitDepths }

Rates == {0, 8000, 16000, 24000, 48000}

RateParams ==
    { [kind |-> "missing", param |-> <<>>, n |-> 0],
      [kind |-> "unparseable", param |-> RateKey, n |-> 0],
      [kind |-> "unparseable", param |-> RateKey \o <<"=">>, n |-> 0],
      [kind |-> "unparseable", param |-> RateKey \o <<"=", "x">>, n |-> 0] }
    \cup { [kind |-> "number", param |-> RateKey \o <<"=">> \o ToDigits(n),
            n |-> n] : n \in Rates }

Pads == { <<>>, <<" ">> }

Extras == { <<>>, <<";", "c", "=", "1">> }

Descriptor(c, e, x, r, pad) ==
    pad \o c \o <<"/">> \o e.text \o pad \o x
    \o (IF r.kind = "missing" THEN <<>> ELSE <<";">> \o pad \o r.param \o pad)

Descriptors ==
    { Descriptor(c, e, x, r, pad) :
        c \in Categories, e \in Encodings, x \in Extras, r \in RateParams,
        pad \in Pads }

\* A fragment arrives with any of the descriptors; nothing is parsed yet.
InitMime ==
    /\ svc = Fresh.svc
    /\ req = Fresh.req
    /\ net = Fresh.net
    /\ now = T0
    /\ last = Task("init", 0, 0, 0, FALSE)
    /\ \E d \in Descriptors : mime = [NoMime EXCEPT !.text = d]

\* Lines 425-429 of scheduleNewChunks for the fragment: the descriptor is
\* parsed and the sample rate of the buffer is chosen.
ParseChunkMime ==
    /\ ~mime.parsed
    /\ LET options == ParseMimeType(mime.text)
       IN mime' = [text |-> mime.text, parsed |-> TRUE,
                   numChannels |-> options.numChannels,
                   bitsPerSample |-> options.bitsPerSample,
                   sampleRate |-> options.sampleRate,
                   rate |-> ChunkSampleRate(mime.text)]
    /\ last' = Task("parse", 0, Len(mime.text), 0, FALSE)
    /\ UNCHANGED <<svc, req, net, now>>

NextMime == ParseChunkMime

SpecMime == InitMime /\ [][NextMime]_vars

\* ================================================================== claims
Settled(u) == req[u].status \in {"resolved", "rejected"}

\* C1: without disconnect() and without failing sends, utterances are passed
\* to sendClientContent in speak() order: the first send is of the first
\* utterance, every later send is of the utterance sent before it or of the
\* one enqueued right after it, each send carries the text given to speak(),
\* and no utterance leaves the queue without having been sent.
C1_SendsInCallOrder ==
    /\ \A i \in 1..Len(net.sendLog) :
          LET e == net.sendLog[i] IN
          /\ e.text = req[e.u].text
          /\ i = 1 => e.u = 1
          /\ i > 1 => e.u \in {net.sendLog[i - 1].u, net.sendLog[i - 1].u + 1}
    /\ \A u \in Utterances : Settled(u) => req[u].sentCount >= 1

\* Two speak() calls were made before the first send, and both utterances
\* have been sent.
C1_Witness ==
    /\ Len(net.sendLog) >= 2
    /\ \E i \in 1..Len(net.sendLog) : net.sendLog[i].u = 2
    /\ net.connectCalls = 2

\* C2: an utterance is passed to sendClientContent only when every utterance
\* enqueued before it has been resolved or rejected.
C2_NextSentAfterSettled ==
    \A u, v \in Utterances :
        (v < u /\ req[u].sentCount > 0) => Settled(v)

\* The second utterance was sent after the first one was resolved by its
\* idle check.
C2_Witness ==
    /\ req[2].sentCount > 0
    /\ req[1].status = "resolved"
    /\ req[1].sentCount > 0

\* C3 (as claimed): every utterance is passed to sendClientContent at most
\* once.
C3_SentAtMostOnce == \A u \in Utterances : req[u].sentCount <= 1

\* C4 (as claimed): consecutive sources of one utterance abut exactly,
\* whenever the fragments arrive.
C4_AlwaysGapless ==
    \A u \in Utterances : \A k \in 1..(Len(req[u].sources) - 1) :
        req[u].sources[k + 1].start
            = req[u].sources[k].start + req[u].sources[k].dur

\* C4 (amended): a source starts at the end of the source before it, or
\* SafetyMs after the audio-clock time at which it is scheduled when that is
\* later.
C4_GaplessUnlessLate ==
    \A u \in Utterances : \A k \in 1..(Len(req[u].sources) - 1) :
        req[u].sources[k + 1].start
            = Max(req[u].sources[k].start + req[u].sources[k].dur,
                  req[u].sources[k + 1].at + SafetyMs)

\* An utterance has two sources, and the second was scheduled less than
\* SafetyMs before the end of the first, or after it.
C4_Witness ==
    \E u \in Utterances :
        /\ Len(req[u].sources) >= 2
        /\ req[u].sources[2].at + SafetyMs
               > req[u].sources[1].start + req[u].sources[1].dur

\* C5 (as claimed): a resolved utterance was resolved at least idleFinishMs
\* after its last fragment arrived.
C5_ResolvedAfterIdle ==
    \A u \in Utterances :
        (req[u].status = "resolved" /\ req[u].lastChunkTs # Undef)
            => req[u].settledAt >= req[u].lastChunkTs + idleFinishMs

\* Request r has received turnComplete and everything it was given to play
\* has played: at least one source was started, every started source has
\* ended, no chunk is unscheduled, and the last chunk is idleFinishMs old.
PlayedOut(r) ==
    /\ r.status = "pending"
    /\ r.isComplete
    /\ Len(r.sources) > 0
    /\ r.endedChunkCount >= Len(r.sources)
    /\ r.scheduledChunkCount >= Len(r.audioChunks)
    /\ now - r.lastChunkTs >= idleFinishMs

\* C6 (as claimed): fragments that decode to zero samples do not stall the
\* utterance; the idle check of the head utterance resolves it once it has
\* received turnComplete and its playable fragments have all ended, whether
\* or not some of its fragments were skipped.
C6_SkippedFragmentNoStall ==
    [][\A u \in Utterances :
         (/\ last'.op = "timer" /\ last'.u = u
          /\ HeadOf(svc.speechQueue) = u
          /\ PlayedOut(req[u]))
         => req'[u].status = "resolved"]_vars

\* Every send of utterance u has been answered with at least one fragment
\* and turnComplete, and a fragment with samples has been played for u.
Answered(u) ==
    /\ \E i \in 1..Len(net.sendLog) : net.sendLog[i].u = u
    /\ \A i \in 1..Len(net.sendLog) :
          net.sendLog[i].u = u => net.resp[i].tc /\ net.resp[i].n >= 1
    /\ Len(req[u].sources) >= 1

\* C7 (as claimed): every enqueued utterance is resolved and removed; when
\* the backend has answered the head utterance, its sources have all ended
\* and the grace has passed, the idle check takes it out of the queue.
C7_AnsweredUtteranceLeavesQueue ==
    [][\A u \in Utterances :
         (/\ last'.op = "timer" /\ last'.u = u
          /\ HeadOf(svc.speechQueue) = u
          /\ Answered(u)
          /\ req[u].endedChunkCount >= Len(req[u].sources)
          /\ now - req[u].lastChunkTs >= idleFinishMs)
         => /\ Len(svc'.speechQueue) < Len(svc.speechQueue)
            /\ req'[u].status = "resolved"]_vars

\* C8: disconnect() rejects every queued utterance, empties the queue,
\* clears the in-flight flag, the session and the audio graph.
C8_DisconnectRejectsAll ==
    [][last'.op = "disconnect" =>
         /\ \A i \in 1..Len(svc.speechQueue) :
               /\ req[svc.speechQueue[i]].status = "pending"
               /\ req'[svc.speechQueue[i]].status = "rejected"
         /\ svc'.speechQueue = <<>>
         /\ svc'.isProcessingQueue = FALSE
         /\ svc'.session = NoSession
         /\ svc'.audioContext = NoContext
         /\ svc'.outputNode = NoContext]_vars

\* disconnect() was called with two utterances queued, the first in flight.
C8_Witness ==
    /\ last.op = "disconnect" /\ last.n >= 2 /\ last.flag
    /\ req[1].status = "rejected" /\ req[1].sentCount > 0
    /\ req[2].status = "rejected" /\ req[2].sentCount = 0

\* C9: speak() with an empty or whitespace-only text resolves at once and
\* changes nothing in the service: no request, no queue processing, no
\* connect, no send, no scheduling.
C9_BlankSpeakIsNoOp ==
    [][(last'.op = "speak" /\ last'.k = 0) =>
         /\ last'.flag /\ last'.u = 0
         /\ svc' = svc
         /\ req' = req
         /\ net' = [net EXCEPT !.inputs = @ + 1]]_vars

\* A whitespace-only text was spoken while the service had no session and an
\* utterance was queued.
C9_Witness ==
    /\ last.op = "speak" /\ last.k = 0 /\ last.n > 0
    /\ svc.speechQueue # <<>>

\* C10 (as claimed): without a disconnect(), the connect() calls open one
\* backend connection.
C10_OneConnection == net.nDisconnect = 0 => net.nSessions <= 1

\* Members of a queue.
InQueue(q) == { q[i] : i \in 1..Len(q) }

\* C11 (as claimed): when the handshake awaited by processQueue() fails
\* while utterances are queued, the head utterance is rejected and removed
\* from speechQueue.
C11_ConnectFailureRejectsHead ==
    [][(last'.op = "handshakeFail" /\ last'.flag /\ svc.speechQueue # <<>>) =>
         /\ req'[Head(svc.speechQueue)].status = "rejected"
         /\ Head(svc.speechQueue) \notin InQueue(svc'.speechQueue)]_vars

\* C12: when sendClientContent throws for the head utterance, that utterance
\* is rejected and removed from speechQueue and no utterance is rejected
\* whose send did not throw; the next queued utterance, if any, is then sent
\* (and handled the same way if its send throws too), so that the task ends
\* with the next utterance sent and in flight, or with an empty queue and
\* the in-flight flag clear.
C12_SendFailureRejectsOnlyHead ==
    [][Len(net'.thrown) > Len(net.thrown) =>
         LET old == Len(net.thrown)
             new == (old + 1)..Len(net'.thrown)
         IN
         /\ SubSeq(net'.thrown, 1, old) = net.thrown
         /\ \A j \in new :
               LET u == net'.thrown[j] IN
               /\ req'[u].status = "rejected"
               /\ req[u].status \in {"pending", "none"}
               /\ u \notin InQueue(svc'.speechQueue)
               /\ \A v \in InQueue(svc'.speechQueue) : u < v
               /\ \A i \in new : i < j => net'.thrown[i] < u
         /\ \A v \in Utterances \ { net'.thrown[j] : j \in new } :
               req'[v].status = "rejected" => req[v].status = "rejected"
         /\ IF svc'.speechQueue = <<>> THEN ~svc'.isProcessingQueue
            ELSE /\ svc'.isProcessingQueue
                 /\ Len(net'.sendLog) = Len(net.sendLog) + 1
                 /\ net'.sendLog[Len(net'.sendLog)].u = Head(svc'.speechQueue)]_vars

\* The send of the first utterance threw with a second one queued: the
\* first is rejected, the second was sent and is in flight.
C12_Witness ==
    /\ net.thrown = <<1>>
    /\ req[1].status = "rejected"
    /\ req[2].status = "pending" /\ req[2].sentCount = 1
    /\ svc.speechQueue = <<2>> /\ svc.isProcessingQueue

\* C13 (as claimed): the promise returned by warmUpSession() or
\* preWarmForQuestion() never rejects, whatever becomes of the connection
\* attempt it made.
C13_WarmUpNeverRejects == net.warmRejected = 0

\* C14: a disconnect() made right after a disconnect(), or on a service that
\* never called connect(), settles no promise and changes no field: session
\* and audio graph stay absent, speechQueue empty, isProcessingQueue false,
\* chunkCounter 0, and nothing is closed.
C14_DisconnectIdempotent ==
    [][(last'.op = "disconnect"
        /\ (last.op = "disconnect" \/ net.connectCalls = 0)) =>
         /\ svc' = svc
         /\ req' = req
         /\ net' = [net EXCEPT !.nDisconnect = @ + 1, !.inputs = @ + 1]
         /\ svc'.session = NoSession
         /\ svc'.audioContext = NoContext /\ svc'.outputNode = NoContext
         /\ svc'.speechQueue = <<>>
         /\ ~svc'.isProcessingQueue
         /\ ~svc'.isSessionWarmedUp
         /\ svc'.chunkCounter = 0]_vars

\* speak(), disconnect(), disconnect() were called in a row: the first
\* disconnect() rejected the utterance, the second found the queue empty.
C14_Witness ==
    /\ last.op = "disconnect" /\ last.n = 0
    /\ net.nDisconnect = 2 /\ net.nSpeak = 1 /\ net.inputs = 3
    /\ net.pendingPQ = 1
    /\ req[1].status = "rejected"

\* C15 (as claimed): the sources of different utterances never overlap: a
\* source of a later utterance starts at or after the end of every source
\* of an earlier utterance.
C15_NoOverlapAcrossUtterances ==
    \A a, b \in Utterances : a < b =>
        \A i \in 1..Len(req[a].sources), j \in 1..Len(req[b].sources) :
            req[b].sources[j].start
                >= req[a].sources[i].start + req[a].sources[i].dur

\* C18 (as claimed): a resolved utterance has received turnComplete, has at
\* least one fragment, and every fragment it received was scheduled and has
\* ended.
C18_ResolvedOnlyWhenComplete ==
    \A u \in Utterances :
        req[u].status = "resolved" =>
            /\ req[u].isComplete
            /\ req[u].scheduledChunkCount >= Len(req[u].audioChunks)
            /\ req[u].endedChunkCount >= req[u].scheduledChunkCount
            /\ req[u].scheduledChunkCount > 0
            /\ Len(req[u].audioChunks) > 0

\* C19 (as claimed): an idle check resolves no utterance but its own: when
\* the timer of request u fires and a pending utterance is resolved in that
\* task, the utterance is u.
C19_IdleCheckResolvesItsOwn ==
    [][\A v \in Utterances :
         (/\ last'.op = "timer"
          /\ req[v].status = "pending"
          /\ req'[v].status = "resolved") => last'.u = v]_vars

\* C20 (as claimed): a settled utterance has no idle-check timer pending.
C20_SettledHasNoTimer ==
    \A u \in Utterances : Settled(u) => req[u].finishTimer = Undef

\* C17: an inbound message with neither an audio fragment nor turnComplete,
\* and any inbound message that arrives while speechQueue is empty, changes
\* nothing in the service: queue, requests (fragments, counters, cursor,
\* timers), flags and chunkCounter are as before.
C17_EmptyMessageIsNoOp ==
    [][(/\ last'.op = "message"
        /\ \/ last'.k = 0 /\ ~last'.flag
           \/ svc.speechQueue = <<>>) =>
         /\ svc' = svc
         /\ req' = req]_vars

\* A message with neither field arrived for a head utterance that has a
\* fragment scheduled and its idle check armed.
C17_Witness ==
    /\ last.op = "message" /\ last.k = 0 /\ ~last.flag
    /\ svc.speechQueue # <<>>
    /\ req[Head(svc.speechQueue)].finishTimer # Undef
    /\ Len(req[Head(svc.speechQueue)].sources) > 0

\* The fragments of a list that have samples.
RECURSIVE WithSamples(_)
WithSamples(chunks) ==
    IF chunks = <<>> THEN <<>>
    ELSE IF Head(chunks).dur = 0 THEN WithSamples(Tail(chunks))
         ELSE <<Head(chunks)>> \o WithSamples(Tail(chunks))

\* C16: in a scheduling pass every fragment is counted in
\* scheduledChunkCount, a fragment without samples starts no source and
\* leaves the cursor where it was, and the fragments after it are scheduled
\* in the same pass at the start times they would have had if the fragments
\* without samples had never been received.
C16_EmptyFragmentSkipped ==
    [][\A u \in Utterances :
         (last'.op = "schedule" /\ last'.u = u) =>
           LET r == req[u]
               todo == SubSeq(r.audioChunks, r.scheduledChunkCount + 1,
                              Len(r.audioChunks))
               done == SubSeq(r.audioChunks, 1, r.scheduledChunkCount)
               e == ScheduleLoop([r EXCEPT !.audioChunks =
                                             done \o WithSamples(todo)],
                                 svc.audioContext)
           IN /\ req'[u].scheduledChunkCount = Len(r.audioChunks)
              /\ Len(req'[u].sources)
                     = Len(r.sources) + Len(WithSamples(todo))
              /\ Len(e.sources) = Len(req'[u].sources)
              /\ \A k \in 1..Len(e.sources) :
                    /\ req'[u].sources[k].start = e.sources[k].start
                    /\ req'[u].sources[k].dur = e.sources[k].dur
              /\ req'[u].nextStartAt = e.nextStartAt
              /\ (WithSamples(todo) = <<>>) =>
                    /\ req'[u].nextStartAt = r.nextStartAt
                    /\ req'[u].sources = r.sources]_vars

\* A pass was given a fragment without samples followed by a fragment with
\* samples, and started a source for the second.
C16_Witness ==
    /\ last.op = "schedule" /\ last.n >= 2
    /\ req[1].audioChunks[1].dur = 0
    /\ Len(req[1].sources) >= 1
    /\ req[1].sources[1].chunk = 2

\* C21: for every utterance, in every state,
\* endedChunkCount <= scheduledChunkCount <= audioChunks.length.
C21_CountersOrdered ==
    \A u \in Utterances :
        /\ req[u].endedChunkCount <= req[u].scheduledChunkCount
        /\ req[u].scheduledChunkCount <= Len(req[u].audioChunks)

\* An utterance has received two fragments, both were scheduled, one of
\* them has ended.
C21_Witness ==
    \E u \in Utterances :
        /\ Len(req[u].audioChunks) = 2
        /\ req[u].scheduledChunkCount = 2
        /\ req[u].endedChunkCount = 1

\* C22: the sources of one utterance never overlap and never start in the
\* past: a source starts at or after the end of the source scheduled before
\* it, and strictly after the audio-clock time at which it was scheduled
\* (by the safety margin at least).
C22_NoOverlapNoPast ==
    \A u \in Utterances :
        /\ \A k \in 1..(Len(req[u].sources) - 1) :
              req[u].sources[k + 1].start
                  >= req[u].sources[k].start + req[u].sources[k].dur
        /\ \A k \in 1..Len(req[u].sources) :
              /\ req[u].sources[k].start > req[u].sources[k].at
              /\ req[u].sources[k].start >= req[u].sources[k].at + SafetyMs

\* An utterance has two sources scheduled at different times: the second
\* was scheduled after the first had ended, and starts after it was
\* scheduled.
C22_Witness ==
    \E u \in Utterances :
        /\ Len(req[u].sources) >= 2
        /\ req[u].sources[2].at
               >= req[u].sources[1].start + req[u].sources[1].dur
        /\ req[u].sources[2].start > req[u].sources[2].at

\* C23: within one utterance fragments are scheduled in arrival order: the
\* fragments are held in the order of their arrival numbers, the sources
\* are those of the scheduled fragments that have samples, each once and in
\* the order of the fragments, and their start times do not decrease.
C23_ScheduledInArrivalOrder ==
    \A u \in Utterances :
        LET r == req[u] IN
        /\ \A k \in 1..(Len(r.audioChunks) - 1) :
              r.audioChunks[k].chunkIndex < r.audioChunks[k + 1].chunkIndex
        /\ \A k \in 1..Len(r.sources) :
              /\ r.sources[k].chunk \in 1..r.scheduledChunkCount
              /\ r.sources[k].dur = r.audioChunks[r.sources[k].chunk].dur
        /\ \A k \in 1..(Len(r.sources) - 1) :
              /\ r.sources[k].chunk < r.sources[k + 1].chunk
              /\ r.sources[k].start <= r.sources[k + 1].start
        /\ Len(r.sources)
              = Len(WithSamples(SubSeq(r.audioChunks, 1, r.scheduledChunkCount)))

\* An utterance received a playable fragment, a fragment without samples
\* and another playable fragment: its two sources are those of the first
\* and the third.
C23_Witness ==
    \E u \in Utterances :
        /\ Len(req[u].audioChunks) = 3
        /\ Len(req[u].sources) = 2
        /\ req[u].sources[1].chunk = 1
        /\ req[u].sources[2].chunk = 3

\* C24 (as claimed): with an audio context, the task that appends a
\* fragment to the head utterance and every idle-check callback leave no
\* fragment of that utterance unscheduled; and a fragment that arrived after
\* turnComplete has ended when its utterance is resolved.
C24_ScheduledOnArrivalAndIdle ==
    [][\A u \in Utterances :
         /\ (/\ svc.audioContext # NoContext
             /\ \/ /\ last'.op = "message" /\ last'.k > 0
                   /\ HeadOf(svc.speechQueue) = u
                \/ last'.op = "timer" /\ last'.u = u)
            => req'[u].scheduledChunkCount = Len(req'[u].audioChunks)
         /\ (/\ svc.audioContext # NoContext
             /\ req[u].status = "pending"
             /\ req'[u].status = "resolved")
            => \A k \in 1..Len(req'[u].sources) :
                  req'[u].audioChunks[req'[u].sources[k].chunk].late
                      => k <= req'[u].endedChunkCount]_vars

\* C25: when a fragment arrives for the head utterance after its
\* turnComplete, in a message that does not carry turnComplete itself, the
\* utterance has no idle-check timer pending at the end of that task.
C25_LateFragmentCancelsTimer ==
    [][\A u \in Utterances :
         (/\ last'.op = "message" /\ last'.k > 0 /\ ~last'.flag
          /\ HeadOf(svc.speechQueue) = u
          /\ req[u].isComplete)
         => req'[u].finishTimer = Undef]_vars

\* The head utterance received turnComplete, which armed its idle check,
\* and then its only fragment, which cancelled it.
C25_Witness ==
    /\ last.op = "message" /\ last.k > 0 /\ ~last.flag
    /\ last.u \in Utterances
    /\ req[last.u].status = "pending"
    /\ req[last.u].isComplete
    /\ Len(req[last.u].audioChunks) = 1
    /\ req[last.u].audioChunks[1].late
    /\ req[last.u].finishTimer = Undef

\* C26 (as claimed): completion detection is never lost: a head utterance
\* that has received turnComplete and is not settled has its idle check
\* armed, or a source still to end whose onended will arm it.
C26_CompletionNeverLost ==
    \A u \in Utterances :
        (/\ HeadOf(svc.speechQueue) = u
         /\ req[u].status = "pending"
         /\ req[u].isComplete)
        => \/ req[u].finishTimer # Undef
           \/ /\ req[u].endedChunkCount < Len(req[u].sources)
              /\ NextSource(req[u]).ctx \notin net.closedCtx

\* C27: an utterance given an onAudioStart callback has it invoked at most
\* once; in every state the callback has been invoked exactly when a source
\* was started for the utterance, so it is invoked in the task that
\* schedules the first playable fragment and never for an utterance without
\* a scheduled fragment.
C27_OnStartOnceAtFirstSource ==
    \A u \in Utterances :
        req[u].onStart =>
            /\ req[u].startCalls <= 1
            /\ (req[u].startCalls = 1) <=> (Len(req[u].sources) >= 1)

\* An utterance with a callback has two sources and one invocation.
C27_Witness ==
    \E u \in Utterances :
        /\ req[u].onStart
        /\ Len(req[u].sources) >= 2
        /\ req[u].startCalls = 1

\* C28 (as claimed): from a disconnect() until the next call that connects
\* (which builds a new AudioContext), the service holds no session and no
\* backend session it opened is open, whether or not a handshake was
\* pending when disconnect() was called.
C28_NoSessionAfterDisconnect ==
    (net.nDisconnect > 0 /\ svc.audioContext = NoContext) =>
        /\ svc.session = NoSession
        /\ net.openSess = {}

\* The connect() calls whose handshake has failed.
FailedConnects ==
    net.connectCalls - net.nSessions
        - (net.pendingPQ + net.pendingPlain + net.pendingWarm)

\* Tasks that are a call made by the application.
CallerOps == {"speak", "connect", "warmUp", "preWarm"}

C30_AllPartsAppended ==
    [][\A u \in Utterances :
         (/\ last'.op = "message" /\ last'.k >= 1
          /\ HeadOf(svc.speechQueue) = u)
         => /\ Len(req'[u].audioChunks) = Len(req[u].audioChunks) + last'.k
            /\ svc.audioContext # NoContext
                  => req'[u].scheduledChunkCount = Len(req'[u].audioChunks)]_vars


\* C31: every fragment held by an utterance, and the turn-complete flag of
\* an utterance, comes from the backend's answer to a send of that very
\* utterance: what the backend emits for one utterance is never appended
\* to, or used to complete, another one.
C31_FragmentsBelongToTheirSend ==
    \A u \in Utterances :
       /\ \A k \in 1..Len(req[u].audioChunks) :
             net.sendLog[req[u].audioChunks[k].origin].u = u
       /\ req[u].isComplete =>
             \E i \in 1..Len(net.sendLog) :
                net.sendLog[i].u = u /\ net.resp[i].tc


\* C32: an utterance has one idle-check timer at most, pending only once
\* its turn-complete was received, so that one firing of the idle check
\* finishes one utterance at most: a task of the timer never resolves two
\* utterances.
C32_OneFinishPerIdleCheck ==
    [][last'.op = "timer" =>
          /\ Cardinality({ u \in Utterances :
                              /\ req[u].status = "pending"
                              /\ req'[u].status = "resolved" }) <= 1
          /\ \A u \in Utterances :
                req'[u].finishTimer # Undef => req'[u].isComplete]_vars


\* C33: between tasks the in-flight flag agrees with the queue: when it is
\* set the queue has a head that was sent and is not settled; when it is
\* clear no queued utterance was sent; an utterance behind the head was
\* never sent and holds no fragment.
C33_FlagMatchesQueue ==
    LET q == svc.speechQueue
    IN /\ svc.isProcessingQueue =>
             /\ q # <<>>
             /\ req[Head(q)].sentCount > 0
             /\ ~Settled(Head(q))
       /\ ~svc.isProcessingQueue =>
             \A k \in 1..Len(q) : req[q[k]].sentCount = 0
       /\ \A k \in 2..Len(q) :
             /\ req[q[k]].sentCount = 0
             /\ req[q[k]].audioChunks = <<>>


\* The flag is set for a head that was sent after an earlier utterance was
\* resolved by the idle check, with another utterance waiting behind it.
C33_Witness ==
    LET q == svc.speechQueue
    IN /\ svc.isProcessingQueue
       /\ Len(q) >= 2
       /\ req[Head(q)].sentCount > 0
       /\ \E u \in Utterances : req[u].status = "resolved"


\* C34: an utterance whose first two fragments last 500 ms and 300 ms, both
\* scheduled when the audio clock reads 10000 ms, has its cursor primed to
\* 10080 ms: the fragments start at 10080 ms and 10580 ms and the cursor is
\* left at 10880 ms.
C34_TwoFragmentSchedule ==
    \A u \in Utterances :
       ( /\ Len(req[u].audioChunks) = 2
         /\ req[u].audioChunks[1].dur = 500
         /\ req[u].audioChunks[2].dur = 300
         /\ Len(req[u].sources) = 2
         /\ req[u].sources[1].at = 10000
         /\ req[u].sources[2].at = 10000 )
       => /\ req[u].sources[1].start = 10080
          /\ req[u].sources[2].start = 10580
          /\ req[u].nextStartAt = 10880

\* Both fragments of the scenario are scheduled and nothing else arrived.
C34_Witness ==
    /\ Len(req[1].audioChunks) = 2
    /\ req[1].audioChunks[1].dur = 500
    /\ req[1].audioChunks[2].dur = 300
    /\ Len(req[1].sources) = 2
    /\ req[1].sources[1].at = 10000
    /\ req[1].sources[2].at = 10000
    /\ req[1].nextStartAt = 10880


\* C35: for a descriptor <category>/<encoding>;rate=<n>, parseMimeType
\* returns one channel, 16 bits per sample unless the encoding is L<bits>
\* (then that depth) and the sample rate n; the scheduler uses 24000 when
\* the rate parameter is missing, unparseable or zero.
\* audio/L16;rate=16000 gives (16, 16000, 1), audio/pcm;rate=24000 gives
\* (16, 24000, 1).
C35_DescriptorParsed ==
    mime.parsed =>
      /\ \A c \in Categories, e \in Encodings, x \in Extras,
            r \in RateParams, pad \in Pads :
            mime.text = Descriptor(c, e, x, r, pad) =>
              /\ mime.numChannels = 1
              /\ mime.bitsPerSample = IF e.bits # 0 THEN e.bits ELSE 16
              /\ r.kind = "number" => mime.sampleRate = Number(r.n)
              /\ mime.rate = IF r.kind = "number" /\ r.n # 0 THEN r.n
                             ELSE 24000
      /\ mime.text = <<"a", "u", "d", "i", "o", "/", "L", "1", "6", ";",
                       "r", "a", "t", "e", "=", "1", "6", "0", "0", "0">>
            => /\ mime.bitsPerSample = 16
               /\ mime.sampleRate = Number(16000)
               /\ mime.numChannels = 1
      /\ mime.text = DefaultMime
            => /\ mime.bitsPerSample = 16
               /\ mime.sampleRate = Number(24000)
               /\ mime.numChannels = 1

\* 'audio/L16;rate=16000' has been parsed.
C35_Witness ==
    /\ mime.parsed
    /\ mime.text = <<"a", "u", "d", "i", "o", "/", "L", "1", "6", ";",
                     "r", "a", "t", "e", "=", "1", "6", "0", "0", "0">>
    /\ mime.sampleRate = Number(16000)

====
